---- MODULE Spec2Model ----
(***************************************************************************)
(* Model of _modules/snow_api.py, the Salt execution module "snow": four   *)
(* public functions (get_record, get_records, update_record, get_incident) *)
(* and the loader hook __virtual__, each a pass-through to the pysnow      *)
(* client library.  The remote ServiceNow instance is part of the state:   *)
(* one ordered list of records per table.  Every invocation is one atomic  *)
(* action that runs the whole function body; what it did (configuration    *)
(* reads, client handles built, HTTP requests sent, items pulled from the  *)
(* lazy result stream, the value returned or the exception raised) is      *)
(* recorded in the state until the caller takes the result.                *)
(*                                                                         *)
(* Strings are sequences of one-character strings, so that str.split is    *)
(* computed and not assumed.                                               *)
(*                                                                         *)
(* The behaviour of the pysnow library (https://pysnow.readthedocs.io,     *)
(* named at line 10 of the source) is modelled where the module calls it:  *)
(*   Resource.get(query, stream=True) sends one GET and returns a Response;*)
(*   Response.one()          NoResults on 0 records, MultipleResults on >1;*)
(*   Response.one_or_none()  None on 0 records, MultipleResults on >1;     *)
(*   Response.first()        first streamed record, NoResults on 0;        *)
(*   Response.all()          a generator over the streamed records;        *)
(*   Response.update(p)      Resource.update({'sys_id': self['sys_id']}, p)*)
(*                           i.e. one() on the fetched response, then a    *)
(*                           GET by sys_id and a PUT of the payload;       *)
(*   bool(Response)          True: the class defines no __bool__/__len__;  *)
(*   Client(...)             InvalidUsage when instance, user or password  *)
(*                           is empty, before any request.                 *)
(***************************************************************************)
EXTENDS Integers, Sequences, FiniteSets, TLC

\* ---------------------------------------------------------------- bounds
\* Longest list of records the incident table starts with.
MaxRecords == 2
\* Longest query_string handed to update_record.
MaxQueryLen == 3
\* Largest explicit max_results handed to get_records.
MaxN == 3

\* --------------------------------------------------------------- strings
EQ == "="
Chars == {"n", "1", EQ}

\* Every string over Chars of length at most n.
StringsUpTo(n) == UNION {[1..l -> Chars] : l \in 0..n}

QueryStrings == StringsUpTo(MaxQueryLen)

\* Field names of a record.  NUMBER abbreviates 'number', STAGE 'stage'.
SYS_ID == <<"i">>
NUMBER == <<"n">>
STAGE == <<"s">>
FieldNames == {NUMBER, STAGE}
RecordFields == {SYS_ID} \cup FieldNames

NumberValues == {<<"1">>, <<"2">>}
StageValues == {<<"a">>, <<"b">>}
ValuesOf(f) == IF f = NUMBER THEN NumberValues ELSE StageValues

\* The sys_id of the i-th record of a table (unary, so that any i has one).
SysId(i) == [j \in 1..i |-> "i"]

Tables == {"incident", "problem"}

\* Keyword arguments: a mapping from some field names to values.
Mappings == UNION {{m \in [D -> NumberValues \cup StageValues] :
                        \A f \in D : m[f] \in ValuesOf(f)} : D \in SUBSET FieldNames}
Payloads == {m \in Mappings : DOMAIN m # FieldNames}
EmptyMap == [f \in {} |-> <<>>]

MkRecord(i, num, stg) == [f \in RecordFields |->
                            IF f = SYS_ID THEN SysId(i) ELSE IF f = NUMBER THEN num ELSE stg]

\* Record lists of a table: the i-th record carries sys_id SysId(i).
RecordLists(n) == UNION {{[i \in 1..l |-> MkRecord(i, nums[i], stgs[i])] :
                             nums \in [1..l -> NumberValues], stgs \in [1..l -> StageValues]} :
                         l \in 0..n}

ProblemFixture == <<MkRecord(1, <<"1">>, <<"a">>)>>
IncidentFixture == <<MkRecord(1, <<"1">>, <<"a">>), MkRecord(2, <<"1">>, <<"a">>)>>

\* ---------------------------------------------------------- configuration
ConfigKeys == {"username", "password", "instance"}
ConfigStates == {"absent", "empty", "set"}

VARIABLES
    config,          \* service_now:<key> in pillar / minion config: absent, empty or set
    PYSNOW_EXISTS,   \* whether "import pysnow" succeeded at load time
    remote,          \* table name -> list of records held by the ServiceNow instance
    pc,              \* "idle": no call in progress; "done": a call finished, result pending
    call,            \* the finished call's function name and arguments
    outcome,         \* what it returned or raised
    requests,        \* HTTP requests it sent, in order
    config_reads,    \* how often it read service_now from the configuration
    clients,         \* how many pysnow.Client handles it built
    pulled,          \* how many records it took from the lazy result stream
    remote_before    \* the remote tables when the call started

vars == <<config, PYSNOW_EXISTS, remote, pc, call, outcome, requests,
          config_reads, clients, pulled, remote_before>>

\* ------------------------------------------------------------- outcomes
Raise(err) == [kind |-> "raise", type |-> err, value |-> <<>>]
\* A returned value is a list: <<>> for None/False, <<r>> for one record.
Return(type, vals) == [kind |-> "return", type |-> type, value |-> vals]
ReturnNone == Return("None", <<>>)

\* What one run of a function body did.
Done(out, reqs, reads, cl, pl, rem) ==
    [outcome |-> out, requests |-> reqs, config_reads |-> reads,
     clients |-> cl, pulled |-> pl, remote |-> rem]

\* ------------------------------------------------------------ __virtual__
ConfigGet(k) == IF config[k] = "set" THEN "set" ELSE ""

__virtual__ ==
    IF (\E k \in ConfigKeys : ConfigGet(k) = "") \/ ~PYSNOW_EXISTS
    THEN Return("False", <<>>)
    ELSE Return("snow", <<>>)

\* ------------------------------------------------------ _client_for_table
\* "none" when the handle is built, else the exception: NameError when the
\* pysnow name is unbound, KeyError for a missing key of service_now,
\* InvalidUsage from pysnow.Client for an empty instance, user or password.
_client_unchecked(tablename) == "none"

_client_for_table(tablename) ==
    IF ~PYSNOW_EXISTS THEN "NameError"
    ELSE IF \E k \in ConfigKeys : config[k] = "absent" THEN "KeyError"
    ELSE IF \E k \in ConfigKeys : config[k] = "empty" THEN "InvalidUsage"
    ELSE "none"

\* ------------------------------------------------- the remote table API
Matches(rec, query) == \A f \in DOMAIN query : f \in DOMAIN rec /\ rec[f] = query[f]

Request(method, tablename, query, payload, ok) ==
    [method |-> method, table |-> tablename, query |-> query,
     payload |-> payload, ok |-> ok]

\* table_client.get(query=..., stream=True): one GET; the records that match,
\* in the order the remote holds them.
ResourceGet(rem, tablename, query, ok) ==
    [req |-> Request("GET", tablename, query, EmptyMap, ok),
     records |-> IF ok THEN SelectSeq(rem[tablename], LAMBDA r : Matches(r, query))
                 ELSE <<>>]

\* PUT /table/<tablename>/<sys_id>: the payload's fields overwrite the record's.
RemotePut(rem, tablename, sys_id, payload) ==
    [rem EXCEPT ![tablename] =
        [i \in DOMAIN rem[tablename] |->
            LET r == rem[tablename][i] IN
            IF r[SYS_ID] = sys_id
            THEN [f \in DOMAIN r |-> IF f \in DOMAIN payload THEN payload[f] ELSE r[f]]
            ELSE r]]

\* --------------------------------------------------- Response methods
one(records) ==
    IF Len(records) = 0 THEN Raise("NoResults")
    ELSE IF Len(records) > 1 THEN Raise("MultipleResults")
    ELSE Return("record", <<records[1]>>)

one_or_none_first(records) ==
    IF Len(records) = 0 THEN ReturnNone ELSE Return("record", <<records[1]>>)

one_or_none(records) ==
    LET r == one(records) IN
    IF r.kind = "raise" /\ r.type = "NoResults" THEN ReturnNone ELSE r

first(records) ==
    IF Len(records) = 0 THEN Raise("NoResults")
    ELSE Return("record", <<records[1]>>)

Falsy(records) == FALSE

\* bool(response) in "if record:".
Truthy(records) == TRUE

\* itertools.islice(stream, stop): takes items one at a time until stop items
\* were taken or the stream ends.
RECURSIVE IsliceFrom(_, _, _, _)
IsliceFrom(stream, stop, i, acc) ==
    IF i >= stop \/ i >= Len(stream) THEN [items |-> acc, pulled |-> i]
    ELSE IsliceFrom(stream, stop, i + 1, Append(acc, stream[i + 1]))

islice_offbyone(stream, stop) == IsliceFrom(stream, stop + 1, 0, <<>>)

islice(stream, stop) == IsliceFrom(stream, stop, 0, <<>>)

\* str.split('='): the pieces between every occurrence of the separator.
RECURSIVE SplitFrom(_, _, _)
SplitFrom(s, i, cur) ==
    IF i > Len(s) THEN <<cur>>
    ELSE IF s[i] = EQ THEN <<cur>> \o SplitFrom(s, i + 1, <<>>)
    ELSE SplitFrom(s, i + 1, Append(cur, s[i]))

\* str.split('=', 1).
split_first(query_string) ==
    IF \E i \in 1..Len(query_string) : query_string[i] = EQ
    THEN LET i == CHOOSE i \in 1..Len(query_string) :
                    /\ query_string[i] = EQ
                    /\ \A j \in 1..(i - 1) : query_string[j] # EQ
         IN <<SubSeq(query_string, 1, i - 1), SubSeq(query_string, i + 1, Len(query_string))>>
    ELSE <<query_string>>

split_padded(query_string) == SplitFrom(query_string, 1, <<>>) \o <<<<>>>>

split(query_string) == SplitFrom(query_string, 1, <<>>)

TableClientGet_retry(c, tablename, query, ok) ==
    IF c # "none" THEN [error |-> c, requests |-> <<>>, clients |-> 0, records |-> <<>>]
    ELSE LET g == ResourceGet(remote, tablename, query, ok)
             again == ResourceGet(remote, tablename, query, TRUE)
         IN [error |-> "none",
             requests |-> IF ok THEN <<g.req>> ELSE <<g.req, again.req>>,
             clients |-> 1, records |-> again.records]

\* ---------------------------------------- _client_for_table(...).get(...)
\* c: what _client_for_table gave; ok: whether the request goes through.
\* An exception of the client factory leaves before any request is sent.
TableClientGet(c, tablename, query, ok) ==
    IF c # "none" THEN [error |-> c, requests |-> <<>>, clients |-> 0, records |-> <<>>]
    ELSE LET g == ResourceGet(remote, tablename, query, ok) IN
         [error |-> IF ok THEN "none" ELSE "RemoteFailure",
          requests |-> <<g.req>>, clients |-> 1, records |-> g.records]

\* ------------------------------------------------------- _get_response
\* failAt: the position, among this call's requests, of the one that fails
\* (0: none fails).
_get_response(tablename, kwargs, failAt) ==
    TableClientGet(_client_for_table(tablename), tablename, kwargs, failAt # 1)

\* ---------------------------------------------------------- get_record
get_record(tablename, kwargs, failAt) ==
    LET response == _get_response(tablename, kwargs, failAt) IN
    IF response.error # "none"
    THEN Done(Raise(response.error), response.requests, 1, response.clients, 0, remote)
    ELSE Done(one_or_none(response.records), response.requests, 1, 1,
              Len(response.records), remote)

\* --------------------------------------------------------- get_records
DefaultMaxResults == 10

\* list(response.all())[:max_results]
get_records_eager(tablename, max_results, kwargs, failAt) ==
    LET response == _get_response(tablename, kwargs, failAt) IN
    IF response.error # "none"
    THEN Done(Raise(response.error), response.requests, 1, response.clients, 0, remote)
    ELSE Done(Return("list", islice(response.records, max_results).items),
              response.requests, 1, 1, Len(response.records), remote)

get_records(tablename, max_results, kwargs, failAt) ==
    LET table_client == _client_for_table(tablename)
        response == TableClientGet(table_client, tablename, kwargs, failAt # 1)
    IN
    IF response.error # "none"
    THEN Done(Raise(response.error), response.requests, 1, response.clients, 0, remote)
    ELSE LET records == islice(response.records, max_results) IN
         Done(Return("list", records.items), response.requests, 1, 1,
              records.pulled, remote)

\* -------------------------------------------------------- get_incident
DefaultKey == NUMBER

get_incident(incident_number, key, failAt) ==
    LET incident == _client_for_table("incident")
        ret == TableClientGet(incident, "incident", (key :> incident_number), failAt # 1)
    IN
    IF ret.error # "none"
    THEN Done(Raise(ret.error), ret.requests, 1, ret.clients, 0, remote)
    ELSE Done(first(ret.records), ret.requests, 1, 1,
              IF Len(ret.records) = 0 THEN 0 ELSE 1, remote)

\* ------------------------------------------------------- update_record
\* record.update(payload=payload).one() on a fetched response.
ResponseUpdate(tablename, records, payload, reqs, failAt) ==
    LET o == one(records) IN
    IF o.kind = "raise" THEN Done(o, reqs, 1, 1, Len(records), remote)
    ELSE
    LET sys_id == o.value[1][SYS_ID]
        g == ResourceGet(remote, tablename, (SYS_ID :> sys_id), failAt # 2)
        put == Request("PUT", tablename, (SYS_ID :> sys_id), payload, failAt # 3)
        rem == RemotePut(remote, tablename, sys_id, payload)
    IN
    IF ~g.req.ok
    THEN Done(Raise("RemoteFailure"), Append(reqs, g.req), 1, 1, Len(records), remote)
    ELSE IF ~put.ok
    THEN Done(Raise("RemoteFailure"), reqs \o <<g.req, put>>, 1, 1, Len(records), remote)
    ELSE Done(one(ResourceGet(rem, tablename, (SYS_ID :> sys_id), TRUE).records),
              reqs \o <<g.req, put>>, 1, 1, Len(records), rem)

update_record(tablename, query_string, payload, failAt) ==
    LET query_parts == split(query_string) IN
    IF Len(query_parts) < 2
    THEN Done(Raise("IndexError"), <<>>, 0, 0, 0, remote)
    ELSE
    LET query == (query_parts[1] :> query_parts[2])
        record == _get_response(tablename, query, failAt)
    IN
    IF record.error # "none"
    THEN Done(Raise(record.error), record.requests, 1, record.clients, 0, remote)
    ELSE IF Truthy(record.records)
    THEN ResponseUpdate(tablename, record.records, payload, record.requests, failAt)
    ELSE Done(ReturnNone, record.requests, 1, 1, 0, remote)

\* ------------------------------------------------------------- actions
NoCall == [op |-> "none", tablename |-> "", kwargs |-> EmptyMap, max_results |-> 0,
           given |-> FALSE, query_string |-> <<>>, payload |-> EmptyMap]

Finish(c, d) ==
    /\ pc' = "done"
    /\ call' = c
    /\ outcome' = d.outcome
    /\ requests' = d.requests
    /\ config_reads' = d.config_reads
    /\ clients' = d.clients
    /\ pulled' = d.pulled
    /\ remote' = d.remote
    /\ remote_before' = remote
    /\ UNCHANGED <<config, PYSNOW_EXISTS>>

CallVirtual ==
    /\ pc = "idle"
    /\ Finish([NoCall EXCEPT !.op = "__virtual__"],
              Done(__virtual__, <<>>, Cardinality(ConfigKeys), 0, 0, remote))

CallGetRecord ==
    /\ pc = "idle"
    /\ \E tablename \in Tables, kwargs \in Mappings, failAt \in 0..1 :
        Finish([NoCall EXCEPT !.op = "get_record", !.tablename = tablename,
                              !.kwargs = kwargs],
               get_record(tablename, kwargs, failAt))

CallGetRecords ==
    /\ pc = "idle"
    /\ \E tablename \in Tables, kwargs \in Mappings, failAt \in 0..1,
       max_results \in {DefaultMaxResults} \cup (0..MaxN), given \in BOOLEAN :
        /\ ~given => max_results = DefaultMaxResults
        /\ given => max_results # DefaultMaxResults
        /\ Finish([NoCall EXCEPT !.op = "get_records", !.tablename = tablename,
                                 !.kwargs = kwargs, !.max_results = max_results,
                                 !.given = given],
                  get_records(tablename, max_results, kwargs, failAt))

CallGetIncident ==
    /\ pc = "idle"
    /\ \E incident_number \in NumberValues \cup StageValues, key \in FieldNames,
       given \in BOOLEAN, failAt \in 0..1 :
        /\ ~given => key = DefaultKey
        /\ Finish([NoCall EXCEPT !.op = "get_incident",
                                 !.kwargs = (key :> incident_number), !.given = given],
                  get_incident(incident_number, key, failAt))

CallUpdateRecord ==
    /\ pc = "idle"
    /\ \E tablename \in Tables, query_string \in QueryStrings,
       payload \in Payloads, failAt \in 0..3 :
        Finish([NoCall EXCEPT !.op = "update_record", !.tablename = tablename,
                              !.query_string = query_string, !.payload = payload],
               update_record(tablename, query_string, payload, failAt))

\* The caller takes the result: the invocation is over.
TakeResult ==
    /\ pc = "done"
    /\ pc' = "idle"
    /\ call' = NoCall
    /\ outcome' = ReturnNone
    /\ requests' = <<>>
    /\ config_reads' = 0
    /\ clients' = 0
    /\ pulled' = 0
    /\ remote_before' = remote
    /\ UNCHANGED <<config, PYSNOW_EXISTS, remote>>

Usable(cfg, lib) == lib /\ \A k \in ConfigKeys : cfg[k] = "set"

\* With no usable client nothing reaches the remote system, so one fixture
\* stands for its contents there.
Init ==
    /\ config \in [ConfigKeys -> ConfigStates]
    /\ PYSNOW_EXISTS \in BOOLEAN
    /\ remote \in {[t \in Tables |-> IF t = "incident" THEN l ELSE ProblemFixture] :
                      l \in RecordLists(MaxRecords)}
    /\ ~Usable(config, PYSNOW_EXISTS) => remote["incident"] = IncidentFixture
    /\ pc = "idle"
    /\ call = NoCall
    /\ outcome = ReturnNone
    /\ requests = <<>>
    /\ config_reads = 0
    /\ clients = 0
    /\ pulled = 0
    /\ remote_before = remote

Next ==
    \/ CallVirtual
    \/ CallGetRecord
    \/ CallGetRecords
    \/ CallGetIncident
    \/ CallUpdateRecord
    \/ TakeResult

Spec == Init /\ [][Next]_vars

\* ================================================================ claims
PublicOps == {"get_record", "get_records", "update_record", "get_incident"}
Finished(op) == pc = "done" /\ call.op = op

\* The records of table t that satisfy filter q when the call started.
MatchList(t, q) ==
    SelectSeq(remote_before[t],
              LAMBDA r : \A f \in DOMAIN q : f \in DOMAIN r /\ r[f] = q[f])

\* The call's first request (its fetch) was sent and answered.
FetchOk == requests # <<>> /\ requests[1].ok
AllOk == \A i \in 1..Len(requests) : requests[i].ok
Puts == {i \in 1..Len(requests) : requests[i].method = "PUT"}
Min(a, b) == IF a <= b THEN a ELSE b

HasEq(s) == \E i \in 1..Len(s) : s[i] = EQ
FirstEq(s) == CHOOSE i \in 1..Len(s) : s[i] = EQ /\ \A j \in 1..(i - 1) : s[j] # EQ
BeforeFirstEq(s) == SubSeq(s, 1, FirstEq(s) - 1)
AfterFirstEq(s) == SubSeq(s, FirstEq(s) + 1, Len(s))
UpToNextEq(s) == IF HasEq(s) THEN BeforeFirstEq(s) ELSE s
Patched(r, payload) == [f \in DOMAIN r |-> IF f \in DOMAIN payload THEN payload[f] ELSE r[f]]

ConfigIncomplete == \E k \in ConfigKeys : config[k] # "set"
ConfigErrors == {"KeyError", "InvalidUsage"}

\* C1: once its fetch is answered, get_record returns the matching record
\* when exactly one record of the table matches the filter, None when none
\* does, and raises MultipleResults (the ambiguity error) when two or more do.
C1_GetRecordOneOrNone ==
    (Finished("get_record") /\ FetchOk) =>
        LET m == MatchList(call.tablename, call.kwargs) IN
        /\ Len(m) = 1 => outcome = Return("record", <<m[1]>>)
        /\ Len(m) = 0 => outcome = ReturnNone
        /\ Len(m) >= 2 => outcome = Raise("MultipleResults")

C1_Witness ==
    /\ Finished("get_record") /\ FetchOk
    /\ Len(MatchList(call.tablename, call.kwargs)) >= 2
    /\ outcome.kind = "raise"

\* C2 (as claimed): update_record whose filter (on a field of the table)
\* matches no record returns None without raising and sends no write.
C2_NoMatchReturnsNone ==
    (/\ Finished("update_record") /\ FetchOk
     /\ DOMAIN requests[1].query \subseteq FieldNames
     /\ Len(MatchList(call.tablename, requests[1].query)) = 0) =>
        /\ outcome = ReturnNone
        /\ Puts = {}

\* C3: get_records returns the first min(n, m) of the m matching records in
\* remote order, n being max_results, or 10 when max_results is not given.
C3_GetRecordsPrefix ==
    (Finished("get_records") /\ FetchOk) =>
        LET m == MatchList(call.tablename, call.kwargs)
            n == IF call.given THEN call.max_results ELSE 10
        IN outcome = Return("list", SubSeq(m, 1, Min(n, Len(m))))

C3_Witness ==
    /\ Finished("get_records") /\ FetchOk /\ call.given
    /\ call.max_results >= 1
    /\ Len(MatchList(call.tablename, call.kwargs)) > call.max_results
    /\ Len(outcome.value) = call.max_results

\* C4: get_records never takes more than n items from the lazy result stream.
C4_StreamNotAdvancedPastN ==
    Finished("get_records") =>
        pulled <= (IF call.given THEN call.max_results ELSE 10)

C4_Witness ==
    /\ Finished("get_records") /\ FetchOk /\ call.given
    /\ Len(MatchList(call.tablename, call.kwargs)) > call.max_results
    /\ call.max_results >= 1
    /\ pulled = call.max_results

\* C5 (as claimed): get_incident fetches from table 'incident' with the
\* filter {key: number}; it returns the first match when there is one or
\* more, and None when there is none.
C5_GetIncidentFirstOrNone ==
    (Finished("get_incident") /\ FetchOk) =>
        LET m == MatchList("incident", call.kwargs) IN
        /\ requests[1].table = "incident"
        /\ requests[1].query = call.kwargs
        /\ (~call.given) => DOMAIN call.kwargs = {NUMBER}
        /\ Len(m) >= 1 => outcome = Return("record", <<m[1]>>)
        /\ Len(m) = 0 => outcome = ReturnNone

\* C6: update_record(table, 'k=v', **payload) with exactly one record r of
\* the table having r[k] = v, and no request failing, sends exactly one
\* write, for r and with the payload; afterwards the remote differs from
\* before only in r's payload fields, and the updated r is returned.
C6_UpdateOneMatch ==
    (/\ Finished("update_record") /\ clients = 1 /\ AllOk
     /\ HasEq(call.query_string) /\ ~HasEq(AfterFirstEq(call.query_string))
     /\ Len(MatchList(call.tablename,
                      (BeforeFirstEq(call.query_string) :>
                           AfterFirstEq(call.query_string)))) = 1) =>
        LET t == call.tablename
            r == MatchList(t, (BeforeFirstEq(call.query_string) :>
                                   AfterFirstEq(call.query_string)))[1]
        IN
        /\ Cardinality(Puts) = 1
        /\ \A i \in Puts : /\ requests[i].table = t
                           /\ requests[i].query = (SYS_ID :> r[SYS_ID])
                           /\ requests[i].payload = call.payload
        /\ remote = [remote_before EXCEPT ![t] =
                        [i \in DOMAIN remote_before[t] |->
                            IF remote_before[t][i] = r
                            THEN Patched(r, call.payload)
                            ELSE remote_before[t][i]]]
        /\ outcome = Return("record", <<Patched(r, call.payload)>>)

C6_Witness ==
    /\ Finished("update_record") /\ AllOk
    /\ outcome.kind = "return" /\ outcome.type = "record"
    /\ DOMAIN call.payload = {STAGE}
    /\ Len(remote["incident"]) >= 2
    /\ call.tablename = "incident"
    /\ remote # remote_before

C8_SplitOnFirstEq ==
    (Finished("update_record") /\ HasEq(call.query_string) /\ requests # <<>>) =>
        requests[1].query =
            (BeforeFirstEq(call.query_string) :> AfterFirstEq(call.query_string))

\* C8 (amended): update_record splits query_string on every '=': the filter
\* key is the text before the first '=' and the filter value is the text
\* between the first '=' and the next one (or the end); what follows a
\* second '=' is dropped.
C8_SplitOnEveryEq ==
    (Finished("update_record") /\ HasEq(call.query_string) /\ requests # <<>>) =>
        requests[1].query =
            (BeforeFirstEq(call.query_string) :>
                 UpToNextEq(AfterFirstEq(call.query_string)))

C8_Witness ==
    /\ Finished("update_record") /\ requests # <<>>
    /\ HasEq(call.query_string)
    /\ HasEq(AfterFirstEq(call.query_string))
    /\ BeforeFirstEq(call.query_string) = NUMBER

\* C9: update_record with a query_string without '=' raises before it reads
\* the configuration, builds a client or sends any request; the remote
\* records stay as they were.
C9_NoEqRaisesFirst ==
    (Finished("update_record") /\ ~HasEq(call.query_string)) =>
        /\ outcome.kind = "raise"
        /\ config_reads = 0
        /\ clients = 0
        /\ requests = <<>>
        /\ remote = remote_before

C9_Witness ==
    /\ Finished("update_record") /\ ~HasEq(call.query_string)
    /\ Len(call.query_string) >= 1
    /\ Usable(config, PYSNOW_EXISTS)
    /\ outcome = Raise("IndexError")

NoRetry == \A i \in 1..Len(requests) : ~requests[i].ok => i = Len(requests)

\* C10 (as claimed): an invocation that returns has read the configuration
\* once, built one client handle and sent exactly one request; update_record
\* sends at most one request; a failed request is never repeated.
C10_OneRequestPerInvocation ==
    (pc = "done" /\ call.op \in PublicOps) =>
        /\ outcome.kind = "return" =>
              config_reads = 1 /\ clients = 1 /\ Len(requests) = 1
        /\ call.op = "update_record" => Len(requests) <= 1
        /\ NoRetry

\* C10 (amended): every invocation reads the configuration at most once and
\* builds at most one client handle, exactly one of each when it returns;
\* get_record, get_records and get_incident send exactly one request when
\* they return and never more; update_record sends its fetch and, only when
\* the fetch held exactly one record, the library's update: a lookup by
\* sys_id and then at most one write, three requests at most; a failed
\* request is the invocation's last.
C10_RequestsPerInvocation ==
    (pc = "done" /\ call.op \in PublicOps) =>
        /\ config_reads <= 1 /\ clients <= 1
        /\ outcome.kind = "return" =>
              config_reads = 1 /\ clients = 1 /\ Len(requests) >= 1
        /\ call.op # "update_record" => Len(requests) <= 1
        /\ call.op = "update_record" =>
              /\ Len(requests) <= 3
              /\ Cardinality(Puts) <= 1
              /\ Puts \subseteq {3}
              /\ Len(requests) >= 2 =>
                    /\ Len(MatchList(call.tablename, requests[1].query)) = 1
                    /\ requests[2].method = "GET"
                    /\ DOMAIN requests[2].query = {SYS_ID}
        /\ \A i \in 1..Len(requests) : requests[i].method = "GET" \/ i \in Puts
        /\ NoRetry

C10_Witness ==
    /\ Finished("update_record") /\ outcome.kind = "return"
    /\ Len(requests) = 3
    /\ requests[3].method = "PUT"

====
